---- MODULE Spec2Model ----
(***************************************************************************)
(* Model of berkeley_humanoid_lite_lowlevel/policy/gamepad.py:             *)
(* the Se2Gamepad teleoperation front-end (controller detection, the raw   *)
(* control state, the polling threads and the command buffer they write).  *)
(*                                                                         *)
(* Numbers: a float is modelled as a reduced fraction <<num, den>>, den>0. *)
(* Every division in the source is by a power of two and the sensitivities *)
(* used are dyadic, so the fractions are the exact float results.          *)
(* Optional[int] is modelled as <<>> (None) or <<v>>.                      *)
(***************************************************************************)
EXTENDS Integers, Sequences, FiniteSets, TLC

\* ------------------------------------------------------------------ bounds
MaxThreads == 2      \* run() calls that are modelled
MaxCycles  == 2      \* advance() calls that are modelled (all threads together)
MaxBatch   == 2      \* events returned by one read
MaxDevices == 2      \* length of the enumerated device list
MaxWords   == 2      \* words in a device name

\* ------------------------------------------------------- XInputEntry codes
AXIS_X_L       == "ABS_X"
AXIS_Y_L       == "ABS_Y"
AXIS_TRIGGER_L == "ABS_Z"
AXIS_X_R       == "ABS_RX"
AXIS_Y_R       == "ABS_RY"
AXIS_TRIGGER_R == "ABS_RZ"
BTN_HAT_X      == "ABS_HAT0X"
BTN_HAT_Y      == "ABS_HAT0Y"
BTN_A          == "BTN_SOUTH"
BTN_B          == "BTN_EAST"
BTN_X          == "BTN_NORTH"
BTN_Y          == "BTN_WEST"
BTN_BUMPER_L   == "BTN_TL"
BTN_BUMPER_R   == "BTN_TR"
BTN_THUMB_L    == "BTN_THUMBL"
BTN_THUMB_R    == "BTN_THUMBR"
BTN_BACK       == "BTN_SELECT"
BTN_START      == "BTN_START"

\* the string values of XInputEntry.__dict__ that are event codes
XInputEntry ==
  { AXIS_X_L, AXIS_Y_L, AXIS_TRIGGER_L, AXIS_X_R, AXIS_Y_R, AXIS_TRIGGER_R,
    BTN_HAT_X, BTN_HAT_Y, BTN_A, BTN_B, BTN_X, BTN_Y, BTN_BUMPER_L,
    BTN_BUMPER_R, BTN_THUMB_L, BTN_THUMB_R, BTN_BACK, BTN_START }

\* the three axes that drive a velocity, and the six buttons the mode reads
DrivingAxes == { AXIS_Y_L, AXIS_X_R, AXIS_X_L }
ModeButtons == { BTN_A, BTN_BUMPER_L, BTN_BUMPER_R, BTN_X, BTN_THUMB_L, BTN_THUMB_R }

\* --------------------------------------------------------------- fractions
Abs(n) == IF n < 0 THEN -n ELSE n

RECURSIVE GCD(_, _)
GCD(a, b) == IF b = 0 THEN a ELSE GCD(b, a % b)

Frac(n, d) == LET g == GCD(Abs(n), d) IN << n \div g, d \div g >>

Zero == << 0, 1 >>
One  == << 1, 1 >>

FNeg(a)     == << -a[1], a[2] >>
FAbs(a)     == << Abs(a[1]), a[2] >>
FMul(a, b)  == Frac(a[1] * b[1], a[2] * b[2])
FLess(a, b) == a[1] * b[2] < b[1] * a[2]
FLeq(a, b)  == a[1] * b[2] <= b[1] * a[2]

\* ------------------------------------------------------ ControllerProfile
None == << >>
Some(v) == << v >>

\* variant: max_range is the largest positive sample, not the largest deviation
ProfilesPositiveRange ==
  [ dualsense |-> [ name |-> "Sony DualSense (PS5)",   center_value |-> 128,
                    max_range |-> 127,   invert |-> TRUE ],
    xinput    |-> [ name |-> "XInput/Xbox Controller", center_value |-> 0,
                    max_range |-> 32767, invert |-> TRUE ] ]

CONTROLLER_PROFILES ==
  [ dualsense |-> [ name |-> "Sony DualSense (PS5)",   center_value |-> 128,
                    max_range |-> 128,   invert |-> TRUE ],
    xinput    |-> [ name |-> "XInput/Xbox Controller", center_value |-> 0,
                    max_range |-> 32768, invert |-> TRUE ] ]

ProfileKeys == { "dualsense", "xinput" }

\* variant: the sign is not flipped
NormalizeAxisNoInvert(profile, raw_value) ==
  IF raw_value = None THEN Zero
  ELSE Frac(raw_value[1] - profile.center_value, profile.max_range)

\* ControllerProfile.normalize_axis
normalize_axis(profile, raw_value) ==
  IF raw_value = None THEN Zero
  ELSE LET normalized == Frac(raw_value[1] - profile.center_value, profile.max_range)
       IN  IF profile.invert THEN FNeg(normalized) ELSE normalized


\* variant: the dead zone includes its boundary
DeadZoneInclusive(profile, dz, sens, raw_value) ==
  LET normalized == normalize_axis(profile, raw_value)
      zeroed     == IF FLeq(FAbs(normalized), dz) THEN Zero ELSE normalized
  IN  FMul(zeroed, sens)

\* Se2Gamepad._normalize_and_apply_deadzone
normalize_and_apply_deadzone(profile, dz, sens, raw_value) ==
  LET normalized == normalize_axis(profile, raw_value)
      zeroed     == IF FLess(FAbs(normalized), dz) THEN Zero ELSE normalized
  IN  FMul(zeroed, sens)

\* ------------------------------------------------------- raw control state
\* dict.get: None for a key that is not in the dict
Get(s, k) == IF k \in DOMAIN s THEN Some(s[k]) ELSE None

\* dict item assignment
SetItem(s, k, v) == [ x \in (DOMAIN s) \cup {k} |-> IF x = k THEN v ELSE s[x] ]

\* Python truthiness of the result of dict.get on integer values
Truthy(o) == o # None /\ o[1] # 0

\* the dict built by reset()
ResetStates == [ key \in XInputEntry |-> 0 ]

\* variant: an event is applied only if no earlier event of the batch had its code
RECURSIVE ApplyEventsFirstWins(_, _)
ApplyEventsFirstWins(s, events) ==
  IF events = << >> THEN s
  ELSE LET last == events[Len(events)]
           init == SubSeq(events, 1, Len(events) - 1)
           done == ApplyEventsFirstWins(s, init)
       IN  IF \E i \in 1..Len(init) : init[i][1] = last[1] THEN done
           ELSE SetItem(done, last[1], last[2])

\* the codes of a batch
Codes(events) == { events[i][1] : i \in 1..Len(events) }

\* the state of the last event of a batch with code k
LastState(events, k) ==
  LET i == CHOOSE j \in 1..Len(events) :
             /\ events[j][1] = k
             /\ \A l \in (j + 1)..Len(events) : events[l][1] # k
  IN  events[i][2]

\* what a batch of events says last about each of its codes
Latest(events) == [ k \in Codes(events) |-> LastState(events, k) ]
NoEvents == Latest(<< >>)

\* the for loop of advance(): events applied in order
RECURSIVE ApplyEvents(_, _)
ApplyEvents(s, events) ==
  IF events = << >> THEN s
  ELSE ApplyEvents(SetItem(s, Head(events)[1], Head(events)[2]), Tail(events))

\* variant: the A + right-bumper test placed after the A + left-bumper test
ModeSwitchActivateLast(s) ==
  LET m0 == 0
      m1 == IF Truthy(Get(s, BTN_A)) /\ Truthy(Get(s, BTN_BUMPER_L)) THEN 2 ELSE m0
      m2 == IF Truthy(Get(s, BTN_A)) /\ Truthy(Get(s, BTN_BUMPER_R)) THEN 3 ELSE m1
      m3 == IF \/ Truthy(Get(s, BTN_X))
               \/ Truthy(Get(s, BTN_THUMB_L))
               \/ Truthy(Get(s, BTN_THUMB_R)) THEN 1 ELSE m2
  IN  m3

\* variant: the idle test placed first instead of last
ModeSwitchIdleFirst(s) ==
  LET m0 == 0
      m1 == IF \/ Truthy(Get(s, BTN_X))
               \/ Truthy(Get(s, BTN_THUMB_L))
               \/ Truthy(Get(s, BTN_THUMB_R)) THEN 1 ELSE m0
      m2 == IF Truthy(Get(s, BTN_A)) /\ Truthy(Get(s, BTN_BUMPER_R)) THEN 3 ELSE m1
      m3 == IF Truthy(Get(s, BTN_A)) /\ Truthy(Get(s, BTN_BUMPER_L)) THEN 2 ELSE m2
  IN  m3

\* variant: the bumper tests without the test of A
ModeSwitchBumperOnly(s) ==
  LET m0 == 0
      m1 == IF Truthy(Get(s, BTN_BUMPER_R)) THEN 3 ELSE m0
      m2 == IF Truthy(Get(s, BTN_BUMPER_L)) THEN 2 ELSE m1
      m3 == IF \/ Truthy(Get(s, BTN_X))
               \/ Truthy(Get(s, BTN_THUMB_L))
               \/ Truthy(Get(s, BTN_THUMB_R)) THEN 1 ELSE m2
  IN  m3

\* mode-switch decision of _update_command_buffer
ModeSwitch(s) ==
  LET m0 == 0
      m1 == IF Truthy(Get(s, BTN_A)) /\ Truthy(Get(s, BTN_BUMPER_R)) THEN 3 ELSE m0
      m2 == IF Truthy(Get(s, BTN_A)) /\ Truthy(Get(s, BTN_BUMPER_L)) THEN 2 ELSE m1
      m3 == IF \/ Truthy(Get(s, BTN_X))
               \/ Truthy(Get(s, BTN_THUMB_L))
               \/ Truthy(Get(s, BTN_THUMB_R)) THEN 1 ELSE m2
  IN  m3

ZeroCommands ==
  [ velocity_x |-> Zero, velocity_y |-> Zero, velocity_yaw |-> Zero, mode_switch |-> 0 ]

\* --------------------------------------------------------- device detection
\* a device name is a sequence of words; str.lower() works word by word
Lower(w) ==
  CASE w = "Sony"       -> "sony"
    [] w = "DualSense"  -> "dualsense"
    [] w = "Motion"     -> "motion"
    [] w = "Touchpad"   -> "touchpad"
    [] w = "Xbox"       -> "xbox"
    [] w = "XInput"     -> "xinput"
    [] w = "Controller" -> "controller"
    [] OTHER            -> w

LowerName(name) == [ i \in 1..Len(name) |-> Lower(name[i]) ]

\* the substring test  marker in device_name
In(marker, device_name) == \E i \in 1..Len(device_name) : device_name[i] = marker

\* variant: the motion/touchpad exclusion left out
IsDualSenseNoExclusion(device_name) ==
  In("dualsense", device_name) \/ In("sony", device_name)

IsDualSense(device_name) ==
  /\ In("dualsense", device_name) \/ In("sony", device_name)
  /\ ~In("motion", device_name) /\ ~In("touchpad", device_name)

IsXbox(device_name) == In("xbox", device_name) \/ In("xinput", device_name)

\* variant: one pass over the list per rule, the DualSense rule first
DetectByRule(devs, i) ==
  LET ds == { j \in i..Len(devs) : IsDualSense(LowerName(devs[j])) }
      xb == { j \in i..Len(devs) : IsXbox(LowerName(devs[j])) }
      Min(S) == CHOOSE x \in S : \A y \in S : x <= y
  IN  IF ds # { } THEN << Some(Min(ds)), "dualsense" >>
      ELSE IF xb # { } THEN << Some(Min(xb)), "xinput" >>
      ELSE << None, "xinput" >>

\* the for loop of _detect_controller, from device i on
RECURSIVE DetectFrom(_, _)
DetectFrom(devs, i) ==
  IF i > Len(devs) THEN << None, "xinput" >>
  ELSE LET device_name == LowerName(devs[i])
       IN  IF IsDualSense(device_name) THEN << Some(i), "dualsense" >>
           ELSE IF IsXbox(device_name) THEN << Some(i), "xinput" >>
           ELSE DetectFrom(devs, i + 1)

\* Se2Gamepad._detect_controller
detect_controller(devs) == DetectFrom(devs, 1)


\* -------------------------------------------------------------- the state
VARIABLES
  devices,             \* inputs.devices: the enumerated device names, in order
  pad,                 \* the kind of pad that answers the reads
  stick_sensitivity,   \* self.stick_sensitivity
  dead_zone,           \* self.dead_zone
  gamepad_device,      \* self._gamepad_device: None or Some(index in devices)
  controller_profile,  \* self._controller_profile: key of CONTROLLER_PROFILES,
                       \*   "unset" before __init__ has run
  states,              \* self._states
  commands,            \* self.commands
  stopped,             \* self._stopped.is_set()
  run_forever_thread,  \* self._run_forever_thread: 0 (None) or the last thread
  pc,                  \* position of each polling thread
  raw,                 \* locals raw_velocity_x/_y/_yaw of _update_command_buffer
  cycle,               \* history: advance() calls begun so far
  wholes,              \* history: the snapshots polling cycles set out to store
  seen,                \* history: codes with an event since the last reset()
  latest,              \* history: the last state, by code, of the events of the
                       \*   batch, if the step just taken has applied a whole batch
  afterStop,           \* history: advance() calls a thread ended after stop()
  published,           \* history: successful advance() calls ended so far
  rpc,                 \* position of the consumer reading self.commands
  rval,                \* the field values the consumer has read
  calls,               \* arguments of the normalize_axis calls of a direct caller
  returns              \* what the calls made so far returned

vars == << devices, pad, stick_sensitivity, dead_zone, gamepad_device,
           controller_profile, states, commands, stopped, run_forever_thread,
           pc, raw, cycle, wholes, seen, latest, afterStop, published,
           rpc, rval, calls, returns >>

config   == << devices, pad, stick_sensitivity, dead_zone, gamepad_device, controller_profile >>
reader   == << rpc, rval >>
caller   == << calls, returns >>

Threads == 1..MaxThreads
Fields  == { "velocity_x", "velocity_y", "velocity_yaw", "mode_switch" }

Profile == CONTROLLER_PROFILES[controller_profile]

\* the snapshot a complete _update_command_buffer publishes for raw state s
Snapshot(s) ==
  [ velocity_x   |-> normalize_and_apply_deadzone(Profile, dead_zone, stick_sensitivity,
                                                  Get(s, AXIS_Y_L)),
    velocity_y   |-> normalize_and_apply_deadzone(Profile, dead_zone, stick_sensitivity,
                                                  Get(s, AXIS_X_R)),
    velocity_yaw |-> normalize_and_apply_deadzone(Profile, dead_zone, stick_sensitivity,
                                                  Get(s, AXIS_X_L)),
    mode_switch  |-> ModeSwitch(s) ]

\* ----------------------------------------------------------- environment
\* device names
Vocabulary == << "Sony", "dualsense", "Motion", "touchpad", "Xbox", "xinput", "Controller" >>

RECURSIVE SeqsUpTo(_, _)
SeqsUpTo(S, n) ==
  IF n = 0 THEN { << >> }
  ELSE LET shorter == SeqsUpTo(S, n - 1)
       IN  shorter \cup { Append(q, x) : q \in shorter, x \in S }

\* the words picked by index set I, in vocabulary order
RECURSIVE WordsOf(_)
WordsOf(I) ==
  IF I = { } THEN << >>
  ELSE LET i == CHOOSE x \in I : \A y \in I : x <= y
       IN  << Vocabulary[i] >> \o WordsOf(I \ {i})

\* names of one to MaxWords different words (the substring tests of
\* _detect_controller do not depend on the order or repetition of words)
DeviceNames ==
  { WordsOf(I) : I \in { J \in SUBSET (1..Len(Vocabulary)) :
                            Cardinality(J) >= 1 /\ Cardinality(J) <= MaxWords } }
\* the device lists of up to n devices
DeviceLists(n) == SeqsUpTo(DeviceNames, n)

\* the device lists of the polling model: nothing enumerated, or a DualSense
LoopDeviceLists == { << >>, << << "Sony", "dualsense" >> >> }

\* (stick_sensitivity, dead_zone) pairs; the first is the default of __init__
DefaultConfig == << One, << 1, 100 >> >>
Configs       == { DefaultConfig, << << 1, 2 >>, << 1, 2 >> >>, << << 2, 1 >>, Zero >> }

\* the events a pad sends in the polling model: the left stick pushed to the
\* end of its range, X pressed, X released
PadKinds == { "dualsense_pad", "xbox_pad" }
PadEvents ==
  [ k \in PadKinds |->
      IF k = "dualsense_pad"
      THEN { << AXIS_Y_L, 255 >>, << BTN_X, 1 >>, << BTN_X, 0 >> }
      ELSE { << AXIS_Y_L, 32767 >>, << BTN_X, 1 >>, << BTN_X, 0 >> } ]

\* the batches a read can return, and the events that have been applied when
\* iterating a batch raises before its last event
PadBatches  == [ k \in PadKinds |-> SeqsUpTo(PadEvents[k], MaxBatch) ]
PadPrefixes == [ k \in PadKinds |-> SeqsUpTo(PadEvents[k], MaxBatch - 1) ]

\* what each batch says last about each of its codes
PadLatest == [ k \in PadKinds |-> [ events \in PadBatches[k] |-> Latest(events) ] ]

\* the pad behind a device list: the DualSense that was enumerated, else the
\* default gamepad, an Xbox pad
PadOf(devs) == IF devs = << >> THEN "xbox_pad" ELSE "dualsense_pad"

\* self._gamepad_device.read()
DeviceRead == PadBatches[pad]
\* inputs.get_gamepad()
GetGamepad == PadBatches[pad]

\* ------------------------------------------------------------ construction
\* the object __init__ builds
NewObject(devs) ==
  LET detected == detect_controller(devs)
  IN  [ states |-> ResetStates, commands |-> ZeroCommands,
        gamepad_device |-> detected[1], controller_profile |-> detected[2] ]

NoThreads ==
  /\ stopped = FALSE
  /\ run_forever_thread = 0
  /\ pc = [ t \in Threads |-> "none" ]
  /\ raw = [ t \in Threads |-> << None, None, None >> ]
  /\ cycle = 0
  /\ wholes = { ZeroCommands }
  /\ seen = { }
  /\ latest = NoEvents
  /\ afterStop = [ t \in Threads |-> 0 ]
  /\ published = 0
  /\ rpc = "r_vx"
  /\ rval = ZeroCommands

\* no direct caller of normalize_axis
NoCaller ==
  /\ calls = << >>
  /\ returns = << >>

\* the state after Se2Gamepad(stick_sensitivity, dead_zone)
InitWith(devLists, cfgs) ==
  /\ devices \in devLists
  /\ pad = PadOf(devices)
  /\ \E c \in cfgs : stick_sensitivity = c[1] /\ dead_zone = c[2]
  /\ gamepad_device = NewObject(devices).gamepad_device
  /\ controller_profile = NewObject(devices).controller_profile
  /\ states = NewObject(devices).states
  /\ commands = NewObject(devices).commands
  /\ NoThreads
  /\ NoCaller

Init == InitWith(LoopDeviceLists, { DefaultConfig })

\* ------------------------------------------------------------- operations
\* Se2Gamepad.reset
Reset ==
  /\ states' = ResetStates
  /\ seen' = { }
  /\ UNCHANGED << config, commands, stopped, run_forever_thread, pc, raw,
                  cycle, wholes, afterStop, published, reader, caller >>
  /\ latest' = NoEvents

\* Se2Gamepad.stop
Stop ==
  /\ stopped' = TRUE
  /\ UNCHANGED << config, states, commands, run_forever_thread, pc, raw,
                  cycle, wholes, seen, afterStop, published, reader, caller >>
  /\ latest' = NoEvents

\* variant: run() clears the stop flag before it starts the thread
RunClearsStop ==
  /\ run_forever_thread < MaxThreads
  /\ run_forever_thread' = run_forever_thread + 1
  /\ pc' = [ pc EXCEPT ![run_forever_thread + 1] = "check" ]
  /\ stopped' = FALSE
  /\ UNCHANGED << config, states, commands, raw,
                  cycle, wholes, seen, afterStop, published, reader, caller >>
  /\ latest' = NoEvents

\* Se2Gamepad.run: a new thread, about to evaluate the while condition
Run ==
  /\ run_forever_thread < MaxThreads
  /\ run_forever_thread' = run_forever_thread + 1
  /\ pc' = [ pc EXCEPT ![run_forever_thread + 1] = "check" ]
  /\ UNCHANGED << config, states, commands, stopped, raw,
                  cycle, wholes, seen, afterStop, published, reader, caller >>
  /\ latest' = NoEvents

\* variant: the while condition does not look at the stop flag
LoopCheckIgnoresStop(t) ==
  /\ pc[t] = "check"
  /\ cycle < MaxCycles
  /\ pc' = [ pc EXCEPT ![t] = "read" ]
  /\ cycle' = cycle + 1
  /\ UNCHANGED << config, states, commands, stopped, run_forever_thread, raw,
                  wholes, seen, afterStop, published, reader, caller >>
  /\ latest' = NoEvents

\* run_forever: the while condition
LoopCheck(t) ==
  /\ pc[t] = "check"
  /\ IF stopped
     THEN /\ pc' = [ pc EXCEPT ![t] = "done" ]
          /\ UNCHANGED cycle
     ELSE /\ cycle < MaxCycles
          /\ pc' = [ pc EXCEPT ![t] = "read" ]
          /\ cycle' = cycle + 1
  /\ UNCHANGED << config, states, commands, stopped, run_forever_thread, raw,
                  wholes, seen, afterStop, published, reader, caller >>
  /\ latest' = NoEvents

\* variant: no except clause, the error ends run_forever and the thread
ExceptPropagates(t) ==
  /\ pc' = [ pc EXCEPT ![t] = "done" ]
  /\ afterStop' = [ afterStop EXCEPT ![t] = IF stopped THEN @ + 1 ELSE @ ]

\* the except clause of advance(): the error is swallowed, advance() returns
Except(t) ==
  /\ pc' = [ pc EXCEPT ![t] = "check" ]
  /\ afterStop' = [ afterStop EXCEPT ![t] = IF stopped THEN @ + 1 ELSE @ ]

\* advance(): the blocking read raises
ReadFail(t) ==
  /\ pc[t] = "read"
  /\ Except(t)
  /\ UNCHANGED << config, states, commands, stopped, run_forever_thread, raw,
                  cycle, wholes, seen, published, reader, caller >>
  /\ latest' = NoEvents

\* advance(): the read returns a batch but iterating it raises; the events
\* before the failing one have been applied
ApplyFail(t) ==
  /\ pc[t] = "read"
  /\ \E applied \in PadPrefixes[pad] :
       /\ states' = ApplyEvents(states, applied)
       /\ seen' = seen \cup Codes(applied)
       /\ latest' = NoEvents
  /\ Except(t)
  /\ UNCHANGED << config, commands, stopped, run_forever_thread, raw,
                  cycle, wholes, published, reader, caller >>

\* advance() without an error, as one step: the read returns a batch, every
\* event is applied and _update_command_buffer stores the new commands
Advance(t) ==
  /\ pc[t] = "read"
  /\ \E events \in (IF gamepad_device # None THEN DeviceRead ELSE GetGamepad) :
       /\ states' = ApplyEvents(states, events)
       /\ seen' = seen \cup Codes(events)
       /\ latest' = PadLatest[pad][events]
  /\ commands' = Snapshot(states')
  /\ wholes' = wholes \cup { Snapshot(states') }
  /\ pc' = [ pc EXCEPT ![t] = "check" ]
  /\ afterStop' = [ afterStop EXCEPT ![t] = IF stopped THEN @ + 1 ELSE @ ]
  /\ published' = published + 1
  /\ UNCHANGED << config, stopped, run_forever_thread, raw, cycle, reader, caller >>

\* the same advance() statement by statement, for the interleavings with other
\* threads: the read returns a batch and every event is applied
ReadOk(t) ==
  /\ pc[t] = "read"
  /\ \E events \in (IF gamepad_device # None THEN DeviceRead ELSE GetGamepad) :
       /\ states' = ApplyEvents(states, events)
       /\ seen' = seen \cup Codes(events)
       /\ latest' = PadLatest[pad][events]
  /\ pc' = [ pc EXCEPT ![t] = "update" ]
  /\ UNCHANGED << config, commands, stopped, run_forever_thread, raw,
                  cycle, wholes, afterStop, published, reader, caller >>

\* _update_command_buffer: the three raw axis values are read
ReadRaw(t) ==
  /\ pc[t] = "update"
  /\ raw' = [ raw EXCEPT ![t] = << Get(states, AXIS_Y_L), Get(states, AXIS_X_R),
                                   Get(states, AXIS_X_L) >> ]
  /\ wholes' = wholes \cup { Snapshot(states) }
  /\ pc' = [ pc EXCEPT ![t] = "w_vx" ]
  /\ UNCHANGED << config, states, commands, stopped, run_forever_thread,
                  cycle, seen, afterStop, published, reader, caller >>
  /\ latest' = NoEvents

\* _update_command_buffer: one of the three velocity assignments
WriteVelocity(t, at, field, i, next) ==
  /\ pc[t] = at
  /\ commands' = [ commands EXCEPT ![field] =
       normalize_and_apply_deadzone(Profile, dead_zone, stick_sensitivity, raw[t][i]) ]
  /\ pc' = [ pc EXCEPT ![t] = next ]
  /\ UNCHANGED << config, states, stopped, run_forever_thread, raw,
                  cycle, wholes, seen, afterStop, published, reader, caller >>
  /\ latest' = NoEvents

WriteVx(t)  == WriteVelocity(t, "w_vx", "velocity_x", 1, "w_vy")
WriteVy(t)  == WriteVelocity(t, "w_vy", "velocity_y", 2, "w_yaw")
WriteYaw(t) == WriteVelocity(t, "w_yaw", "velocity_yaw", 3, "w_mode")

\* variant: a mode switch of 0 keeps the mode of the previous snapshot
WriteModeLatched(t) ==
  /\ pc[t] = "w_mode"
  /\ commands' = [ commands EXCEPT !["mode_switch"] =
                     IF ModeSwitch(states) = 0 THEN @ ELSE ModeSwitch(states) ]
  /\ pc' = [ pc EXCEPT ![t] = "check" ]
  /\ afterStop' = [ afterStop EXCEPT ![t] = IF stopped THEN @ + 1 ELSE @ ]
  /\ published' = published + 1
  /\ UNCHANGED << config, states, stopped, run_forever_thread, raw,
                  cycle, wholes, seen, reader, caller >>
  /\ latest' = NoEvents

\* _update_command_buffer: the mode switch is decided and stored; advance() returns
WriteMode(t) ==
  /\ pc[t] = "w_mode"
  /\ commands' = [ commands EXCEPT !["mode_switch"] = ModeSwitch(states) ]
  /\ pc' = [ pc EXCEPT ![t] = "check" ]
  /\ afterStop' = [ afterStop EXCEPT ![t] = IF stopped THEN @ + 1 ELSE @ ]
  /\ published' = published + 1
  /\ UNCHANGED << config, states, stopped, run_forever_thread, raw,
                  cycle, wholes, seen, reader, caller >>
  /\ latest' = NoEvents

\* one step of polling thread t, advance() taken as a whole
ThreadStep(t) ==
  \/ LoopCheck(t)
  \/ ReadFail(t)
  \/ ApplyFail(t)
  \/ Advance(t)

\* one step of polling thread t, advance() statement by statement
ThreadStatement(t) ==
  \/ LoopCheck(t)
  \/ ReadFail(t)
  \/ ApplyFail(t)
  \/ ReadOk(t)
  \/ ReadRaw(t)
  \/ WriteVx(t)
  \/ WriteVy(t)
  \/ WriteYaw(t)
  \/ WriteMode(t)

Next ==
  \/ Reset
  \/ Stop
  \/ Run
  \/ \E t \in Threads : ThreadStep(t)

Spec == Init /\ [][Next]_vars


\* ------------------------------------------------- a consumer of commands
\* the consumer of self.commands (the loop of __main__, reading every field):
\* one commands.get(field) per step
ReadField(at, field, next) ==
  /\ rpc = at
  /\ rval' = [ rval EXCEPT ![field] = commands[field] ]
  /\ rpc' = next
  /\ UNCHANGED << config, states, commands, stopped, run_forever_thread, pc, raw,
                  cycle, wholes, seen, afterStop, published, caller >>
  /\ latest' = NoEvents

Consume ==
  \/ ReadField("r_vx", "velocity_x", "r_vy")
  \/ ReadField("r_vy", "velocity_y", "r_yaw")
  \/ ReadField("r_yaw", "velocity_yaw", "r_mode")
  \/ ReadField("r_mode", "mode_switch", "r_vx")

\* nothing enumerated: the default gamepad, XInput profile
InitConsumer == InitWith({ << >> }, { DefaultConfig })

NextConsumer ==
  \/ Reset
  \/ Stop
  \/ Run
  \/ \E t \in Threads : ThreadStatement(t)
  \/ Consume

SpecConsumer == InitConsumer /\ [][NextConsumer]_vars

\* ------------------------------------------- the command computation alone
\* raw axis samples: the centre, a sample inside the default dead zone, a
\* sample that normalizes to 1/2 in absolute value, and the two ends of the
\* calibrated range
AxisSamples ==
  IF controller_profile = "dualsense" THEN << 128, 64, 127, 0, 255 >>
  ELSE << 0, 16384, 327, -32768, 32767 >>

\* the sample i places after sample n, going round the list
SampleAfter(n, i) == AxisSamples[((n + i - 1) % Len(AxisSamples)) + 1]

\* samples of the three driving axes: the same sample on all three, or three
\* neighbours of the list, so that every axis takes every sample
AxisTriples ==
  UNION { { [ k \in DrivingAxes |-> AxisSamples[n] ],
            [ k \in DrivingAxes |-> IF k = AXIS_Y_L THEN AxisSamples[n]
                                    ELSE IF k = AXIS_X_R THEN SampleAfter(n, 1)
                                    ELSE SampleAfter(n, 2) ] } :
          n \in 1..Len(AxisSamples) }

\* raw control states the events can produce
RawStates ==
  { [ k \in XInputEntry |->
        IF k \in ModeButtons THEN b[k] ELSE IF k \in DrivingAxes THEN a[k] ELSE 0 ] :
      b \in [ ModeButtons -> { 0, 1 } ], a \in AxisTriples }

\* raw states of the previous cycle: everything released, or X and A held with
\* the left stick pushed
PriorStates ==
  { ResetStates,
    [ ResetStates EXCEPT ![BTN_X] = 1, ![BTN_A] = 1, ![AXIS_Y_L] = 64 ] }

\* one polling thread that has applied its events and is about to call
\* _update_command_buffer, after an earlier cycle published its snapshot
InitCompute ==
  /\ devices \in LoopDeviceLists
  /\ pad = PadOf(devices)
  /\ \E c \in Configs : stick_sensitivity = c[1] /\ dead_zone = c[2]
  /\ gamepad_device = NewObject(devices).gamepad_device
  /\ controller_profile = NewObject(devices).controller_profile
  /\ states \in RawStates
  /\ \E prior \in PriorStates : commands = Snapshot(prior)
  /\ stopped = FALSE
  /\ run_forever_thread = 1
  /\ pc = [ t \in Threads |-> IF t = 1 THEN "update" ELSE "none" ]
  /\ raw = [ t \in Threads |-> << None, None, None >> ]
  /\ cycle = 2
  /\ wholes = { ZeroCommands, commands }
  /\ seen = XInputEntry
  /\ latest = NoEvents
  /\ afterStop = [ t \in Threads |-> 0 ]
  /\ published = 1
  /\ rpc = "r_vx"
  /\ rval = ZeroCommands
  /\ NoCaller

NextCompute ==
  \E t \in Threads : ReadRaw(t) \/ WriteVx(t) \/ WriteVy(t) \/ WriteYaw(t) \/ WriteMode(t)

SpecCompute == InitCompute /\ [][NextCompute]_vars

\* ------------------------------------------------------ construction alone
\* before __init__: the device list is whatever the driver enumerates
InitDetect ==
  /\ devices \in DeviceLists(MaxDevices)
  /\ pad = "xbox_pad"
  /\ stick_sensitivity = DefaultConfig[1]
  /\ dead_zone = DefaultConfig[2]
  /\ gamepad_device = None
  /\ controller_profile = "unset"
  /\ states = << >>
  /\ commands = << >>
  /\ NoThreads
  /\ NoCaller

\* Se2Gamepad.__init__
New ==
  /\ controller_profile = "unset"
  /\ gamepad_device' = NewObject(devices).gamepad_device
  /\ controller_profile' = NewObject(devices).controller_profile
  /\ states' = NewObject(devices).states
  /\ commands' = NewObject(devices).commands
  /\ UNCHANGED << devices, pad, stick_sensitivity, dead_zone, stopped, run_forever_thread,
                  pc, raw, cycle, wholes, seen, afterStop, published, reader, caller >>
  /\ latest' = NoEvents

NextDetect == New

SpecDetect == InitDetect /\ [][NextDetect]_vars


\* --------------------------------------------------- normalize_axis alone
\* deflections from the centre, inside and outside either calibrated range
Deflections == { 1, 2, 127, 128, 129, 255, 32767, 32768, 32769, 65535, -1, -128 }

\* the arguments of four calls: None, the centre, and the centre plus and
\* minus a deflection d
CallsFor(profile, d) ==
  << None, Some(profile.center_value), Some(profile.center_value + d),
     Some(profile.center_value - d) >>

\* a constructed object with either profile, and a caller about to make the
\* four calls on its profile
InitNormalize ==
  /\ devices \in LoopDeviceLists
  /\ pad = PadOf(devices)
  /\ stick_sensitivity = DefaultConfig[1]
  /\ dead_zone = DefaultConfig[2]
  /\ gamepad_device = NewObject(devices).gamepad_device
  /\ controller_profile = NewObject(devices).controller_profile
  /\ states = NewObject(devices).states
  /\ commands = NewObject(devices).commands
  /\ NoThreads
  /\ \E d \in Deflections : calls = CallsFor(Profile, d)
  /\ returns = << >>

\* one call of self._controller_profile.normalize_axis(raw_value)
NormalizeAxis ==
  /\ Len(returns) < Len(calls)
  /\ returns' = Append(returns, normalize_axis(Profile, calls[Len(returns) + 1]))
  /\ UNCHANGED << config, states, commands, stopped, run_forever_thread, pc, raw,
                  cycle, wholes, seen, afterStop, published, reader, calls >>
  /\ latest' = NoEvents

NextNormalize == NormalizeAxis

SpecNormalize == InitNormalize /\ [][NextNormalize]_vars

\* ------------------------------------------------------------- fairness
\* the polling model with the default gamepad, where every started thread is
\* scheduled again and every blocking read returns or raises
SpecFair == InitConsumer /\ [][Next]_vars /\ \A t \in Threads : WF_vars(ThreadStep(t))

\* ================================================================= claims
Pressed(k) == Truthy(Get(states, k))

IdleRequested == Pressed(BTN_X) \/ Pressed(BTN_THUMB_L) \/ Pressed(BTN_THUMB_R)

\* in SpecCompute: the cycle of thread 1 has stored its snapshot
CycleStored == pc[1] = "check"

\* C1 as stated: with A, the left bumper and the right bumper pressed and X,
\* left-stick-press and right-stick-press released, the snapshot of a polling
\* cycle has mode_switch = 3.
C1_ActivateOverridesInit ==
  (CycleStored /\ Pressed(BTN_A) /\ Pressed(BTN_BUMPER_L) /\ Pressed(BTN_BUMPER_R)
     /\ ~IdleRequested)
  => commands.mode_switch = 3

\* C1 amended: in that raw state the snapshot of a polling cycle has
\* mode_switch = 2: the A + left-bumper test comes after the A + right-bumper
\* test, so init overrides activate.
C1_InitOverridesActivate ==
  (CycleStored /\ Pressed(BTN_A) /\ Pressed(BTN_BUMPER_L) /\ Pressed(BTN_BUMPER_R)
     /\ ~IdleRequested)
  => commands.mode_switch = 2

C1_Witness ==
  /\ CycleStored /\ published = 2
  /\ Pressed(BTN_A) /\ Pressed(BTN_BUMPER_L) /\ Pressed(BTN_BUMPER_R) /\ ~IdleRequested
  /\ commands.mode_switch = 2

\* C2: idle takes priority: whenever X, left-stick-press or right-stick-press
\* is pressed in the raw state a polling cycle computes its snapshot from, the
\* snapshot has mode_switch = 1, whatever A and the bumpers are.
C2_IdleTakesPriority ==
  (CycleStored /\ IdleRequested) => commands.mode_switch = 1

C2_Witness ==
  /\ CycleStored /\ published = 2
  /\ Pressed(BTN_THUMB_R) /\ ~Pressed(BTN_X) /\ ~Pressed(BTN_THUMB_L)
  /\ Pressed(BTN_A) /\ Pressed(BTN_BUMPER_L) /\ Pressed(BTN_BUMPER_R)
  /\ commands.mode_switch = 1

\* C3 as stated: in the snapshot a polling cycle publishes, the velocity of an
\* axis that has had no event since construction or the last reset() is 0.0,
\* for either profile.
C3_NoEventNoVelocity ==
  [][ published' = published + 1 =>
        /\ AXIS_Y_L \notin seen' => commands'.velocity_x = Zero
        /\ AXIS_X_R \notin seen' => commands'.velocity_y = Zero
        /\ AXIS_X_L \notin seen' => commands'.velocity_yaw = Zero ]_vars

\* --- the resolver
Constructed == controller_profile # "unset"

Rule1(i) == IsDualSense(LowerName(devices[i]))
Rule2(i) == IsXbox(LowerName(devices[i]))

\* C4 as stated: if any enumerated device satisfies rule 1 the result is the
\* DualSense profile bound to such a device, even behind an earlier Xbox/XInput
\* device; the XInput profile bound to an Xbox/XInput device is the result only
\* when no device satisfies rule 1.
C4_RulePrecedenceOverList ==
  Constructed =>
    /\ (\E i \in 1..Len(devices) : Rule1(i))
         => /\ controller_profile = "dualsense"
            /\ \E i \in 1..Len(devices) : Rule1(i) /\ gamepad_device = Some(i)
    /\ (controller_profile = "xinput" /\ gamepad_device # None)
         => ~ \E i \in 1..Len(devices) : Rule1(i)

\* C4 amended: the list is scanned once, in list order, and the first device
\* that satisfies rule 1 or rule 2 decides; rule 1 comes before rule 2 only on
\* one and the same device. The result is bound to that first device, with the
\* DualSense profile if it satisfies rule 1 and the XInput profile otherwise.
C4_FirstMatchingDevice ==
  Constructed =>
    \A i \in 1..Len(devices) :
      ((Rule1(i) \/ Rule2(i)) /\ \A j \in 1..(i - 1) : ~Rule1(j) /\ ~Rule2(j))
      => /\ gamepad_device = Some(i)
         /\ controller_profile = IF Rule1(i) THEN "dualsense" ELSE "xinput"

C4_Witness ==
  /\ Constructed
  /\ Len(devices) = 2 /\ Rule2(1) /\ ~Rule1(1) /\ Rule1(2)
  /\ gamepad_device = Some(1) /\ controller_profile = "xinput"

\* C5: the resolver returns one (device-or-none, profile) pair for every
\* device list; the DualSense profile is never bound to a device whose name
\* contains "motion" or "touchpad"; a Sony motion-sensor entry followed by an
\* Xbox entry gives the Xbox device with the XInput profile; when no device
\* matches either rule (the empty list included) the result is (none, XInput).
C5_ResolverResult ==
  Constructed =>
    /\ controller_profile \in ProfileKeys
    /\ gamepad_device \in { None } \cup { Some(i) : i \in 1..Len(devices) }
    /\ \A i \in 1..Len(devices) :
         (controller_profile = "dualsense" /\ gamepad_device = Some(i))
         => /\ ~In("motion", LowerName(devices[i]))
            /\ ~In("touchpad", LowerName(devices[i]))
    /\ (devices = << << "Sony", "Motion" >>, << "Xbox", "Controller" >> >>)
         => (gamepad_device = Some(2) /\ controller_profile = "xinput")
    /\ (\A i \in 1..Len(devices) : ~Rule1(i) /\ ~Rule2(i))
         => (gamepad_device = None /\ controller_profile = "xinput")

C5_Witness ==
  /\ Constructed
  /\ devices = << << "Sony", "Motion" >>, << "Xbox", "Controller" >> >>
  /\ gamepad_device = Some(2) /\ controller_profile = "xinput"

\* C6 as stated: whenever the consumer has read the four fields, the four
\* values are the snapshot of one polling cycle (or the initial zero
\* snapshot), never values of two different cycles.
C6_NoTornSnapshot ==
  rpc = "r_vx" => rval \in wholes

\* C7: a started polling loop ends once stop() has been called and the reads
\* return; the step that sets the stop signal moves no thread (it interrupts
\* no read); and a loop ends at most one advance() after the signal was set.
C7_CooperativeShutdown ==
  /\ \A t \in Threads : (stopped /\ pc[t] # "none") ~> (pc[t] = "done")
  /\ [][ (stopped' /\ ~stopped) => pc' = pc ]_vars
  /\ [](\A t \in Threads : afterStop[t] <= 1)

C7_Witness ==
  \E t \in Threads : stopped /\ pc[t] = "done" /\ afterStop[t] = 1

\* C8: once the stop signal is set it stays set whatever is called next
\* (a second stop() included), and no new advance() begins: in particular a
\* loop started after stop() performs no cycle at all.
C8_StoppedIsTerminal ==
  [][ stopped => (stopped' /\ cycle' = cycle) ]_vars

C8_Witness ==
  stopped /\ cycle = 0 /\ run_forever_thread = MaxThreads
    /\ \A t \in Threads : pc[t] = "done"

\* C9: a polling cycle that ends in an error stores nothing in the commands,
\* does not set the stop signal and leaves its thread in the loop, at the
\* while condition; when the read itself raised, the raw state is unchanged
\* too.
C9_TolerateAndContinue ==
  [][ \A t \in Threads :
        (pc[t] = "read" /\ pc'[t] # "read" /\ published' = published)
        => /\ commands' = commands
           /\ stopped' = stopped
           /\ pc'[t] = "check"
           /\ (ReadFail(t) => states' = states) ]_vars

C9_Witness ==
  /\ run_forever_thread = 1 /\ pc[1] = "check"
  /\ cycle = 2 /\ published = 1
  /\ commands # ZeroCommands /\ ~stopped

\* C10 as stated: as long as no polling cycle has completed successfully the
\* readable commands are the zero snapshot.
C10_ZeroUntilFirstCycle ==
  published = 0 => commands = ZeroCommands

\* C11: with X and both stick-presses released, the snapshot of a polling
\* cycle has mode_switch 2 when A and the left bumper are pressed and the right
\* bumper is not, 3 when A and the right bumper are pressed and the left bumper
\* is not, and 0 with no button, with A alone and with a bumper (or both)
\* without A; and mode_switch of the commands is always one of 0, 1, 2, 3.
C11_ModeWhenNotIdle ==
  /\ commands.mode_switch \in { 0, 1, 2, 3 }
  /\ (CycleStored /\ ~IdleRequested) =>
       /\ (Pressed(BTN_A) /\ Pressed(BTN_BUMPER_L) /\ ~Pressed(BTN_BUMPER_R))
            => commands.mode_switch = 2
       /\ (Pressed(BTN_A) /\ Pressed(BTN_BUMPER_R) /\ ~Pressed(BTN_BUMPER_L))
            => commands.mode_switch = 3
       /\ (~Pressed(BTN_A) \/ (~Pressed(BTN_BUMPER_L) /\ ~Pressed(BTN_BUMPER_R)))
            => commands.mode_switch = 0

C11_Witness ==
  /\ CycleStored /\ published = 2 /\ ~IdleRequested
  /\ ~Pressed(BTN_A) /\ Pressed(BTN_BUMPER_L) /\ Pressed(BTN_BUMPER_R)
  /\ commands.mode_switch = 0
  /\ \E w \in wholes : w.mode_switch = 1

\* the profile-normalized value of the sample the raw state holds for a code
Normalized(k) == normalize_axis(Profile, Get(states, k))

\* the velocity C12 states for the axis with code k
DeadZoned(k) ==
  IF FLess(FAbs(Normalized(k)), dead_zone) THEN Zero
  ELSE FMul(Normalized(k), stick_sensitivity)

\* C12: in the snapshot of a polling cycle each velocity is exactly 0 if the
\* absolute value of the profile-normalized sample of its axis is strictly
\* below dead_zone, and normalized * stick_sensitivity otherwise, the boundary
\* |normalized| = dead_zone included.
C12_DeadZone ==
  CycleStored =>
    /\ commands.velocity_x   = DeadZoned(AXIS_Y_L)
    /\ commands.velocity_y   = DeadZoned(AXIS_X_R)
    /\ commands.velocity_yaw = DeadZoned(AXIS_X_L)

\* the boundary on one axis, a nonzero sample inside the dead zone on another
C12_Witness ==
  /\ CycleStored /\ published = 2
  /\ FAbs(Normalized(AXIS_Y_L)) = dead_zone /\ dead_zone # Zero
  /\ commands.velocity_x = FMul(Normalized(AXIS_Y_L), stick_sensitivity)
  /\ commands.velocity_x # Zero
  /\ Normalized(AXIS_X_R) # Zero /\ FLess(FAbs(Normalized(AXIS_X_R)), dead_zone)
  /\ commands.velocity_y = Zero

\* C13: for each built-in profile normalize(none) and normalize(center_value)
\* are 0.0, and for every d # 0 normalize(center_value + d) is the negation of
\* normalize(center_value - d), the two have opposite signs, and the one whose
\* raw value is above the centre is negative.
C13_CenteredSymmetric ==
  /\ Len(returns) >= 1 => (calls[1] = None /\ returns[1] = Zero)
  /\ Len(returns) >= 2 => (calls[2] = Some(Profile.center_value) /\ returns[2] = Zero)
  /\ Len(returns) = 4 =>
       /\ returns[3] = FNeg(returns[4])
       /\ \/ returns[3][1] < 0 /\ returns[4][1] > 0
          \/ returns[3][1] > 0 /\ returns[4][1] < 0
       /\ \A i \in { 3, 4 } : calls[i][1] > Profile.center_value => returns[i][1] < 0

C13_Witness ==
  /\ Len(returns) = 4
  /\ calls[3][1] > Profile.center_value
  /\ returns[3] = FNeg(One) /\ returns[4] = One

\* thread t is inside advance(): blocked in the read, applying events or
\* writing the commands
InAdvance(t) == pc[t] \notin { "none", "check", "done" }

\* C14 as stated: whatever run() and stop() calls are made, at most one polling
\* thread is executing a polling cycle at any time.
C14_SinglePoller ==
  Cardinality({ t \in Threads : InAdvance(t) }) <= 1

\* the calibrated device range of the resolved profile
DeviceMin == IF controller_profile = "dualsense" THEN 0 ELSE -32768
DeviceMax == IF controller_profile = "dualsense" THEN 255 ELSE 32767
InDeviceRange(v) == DeviceMin <= v /\ v <= DeviceMax

InVelocityRange(v) == FLeq(FNeg(stick_sensitivity), v) /\ FLeq(v, stick_sensitivity)

\* C15: with every axis sample inside the calibrated device range of the
\* resolved profile, each of velocity_x, velocity_y and velocity_yaw of the
\* commands lies in [-stick_sensitivity, stick_sensitivity], before, during and
\* after a polling cycle.
C15_VelocityRange ==
  (\A k \in DrivingAxes : InDeviceRange(states[k])) =>
    /\ InVelocityRange(commands.velocity_x)
    /\ InVelocityRange(commands.velocity_y)
    /\ InVelocityRange(commands.velocity_yaw)

\* both ends of the device range, one on each stick
C15_Witness ==
  /\ CycleStored /\ published = 2
  /\ states[AXIS_Y_L] = DeviceMin /\ states[AXIS_X_R] = DeviceMax
  /\ commands.velocity_x = stick_sensitivity
  /\ FLess(commands.velocity_y, Zero) /\ FLess(FNeg(stick_sensitivity), commands.velocity_y)

\* C16: the snapshot a polling cycle has stored is a function of the raw
\* control state at the end of the cycle, the configuration and the profile:
\* whatever the earlier snapshot was, it is the snapshot computed from that raw
\* state alone (so mode_switch is 0 again once every button is released).
C16_Stateless ==
  CycleStored => commands = Snapshot(states)

\* everything released after a snapshot with mode_switch 1 and a pushed stick
C16_Witness ==
  /\ CycleStored /\ published = 2
  /\ \A k \in ModeButtons : ~Pressed(k)
  /\ commands.mode_switch = 0
  /\ \E w \in wholes : w.mode_switch = 1 /\ w.velocity_x # commands.velocity_x

\* C17 as stated: velocity_x is computed from the ABS_Y sample alone,
\* velocity_y from ABS_RX and velocity_yaw from ABS_X; and a polling cycle
\* whose events carry only other codes leaves the three velocities equal to
\* their previous values.
C17_FixedAxisMapping ==
  [][ published' = published + 1 =>
        /\ commands'.velocity_x   = DeadZoned(AXIS_Y_L)'
        /\ commands'.velocity_y   = DeadZoned(AXIS_X_R)'
        /\ commands'.velocity_yaw = DeadZoned(AXIS_X_L)'
        /\ (DOMAIN latest' \cap DrivingAxes = { }) =>
              /\ commands'.velocity_x   = commands.velocity_x
              /\ commands'.velocity_y   = commands.velocity_y
              /\ commands'.velocity_yaw = commands.velocity_yaw ]_vars

\* C18: after a polling cycle without an error the raw state holds, for every
\* code of the batch, the state of the last event of the batch with that code,
\* and for every other code the value it had before the cycle; and no step,
\* of a polling cycle, of stop() or of reset(), changes the profile, the bound
\* device or the configuration.
C18_LastObservedValues ==
  [][ /\ published' = published + 1 =>
           /\ DOMAIN states' = DOMAIN states
           /\ \A k \in DOMAIN states :
                states'[k] = IF k \in DOMAIN latest' THEN latest'[k] ELSE states[k]
      /\ controller_profile' = controller_profile
      /\ gamepad_device' = gamepad_device
      /\ stick_sensitivity' = stick_sensitivity
      /\ dead_zone' = dead_zone ]_vars

\* a batch that has X released last and no other code, after a cycle that
\* left X pressed and the stick pushed
C18_Witness ==
  /\ published = 2
  /\ DOMAIN latest = { BTN_X } /\ latest[BTN_X] = 0
  /\ commands.velocity_x # Zero /\ commands.velocity_x # One
  /\ states[BTN_X] = 0 /\ commands.mode_switch = 0
  /\ \E w \in wholes : w.mode_switch = 1

====
